---- MODULE Spec2Model ----
(***************************************************************************)
(* Model of src/js/three-scene.js: the BlueforgeScene component in its two *)
(* variants (the simple scene, lines 6-313, and the enhanced scene, lines  *)
(* 320-754), the DOMContentLoaded handler that starts it, the three input  *)
(* handlers and the frame loop driven by requestAnimationFrame.            *)
(*                                                                         *)
(* Numbers are fixed point.  Lengths, opacities, normalised pointer        *)
(* coordinates and sines are integers in units of 1/Micro; elapsed time is *)
(* in ticks of 1/TimeDen s; angles are in units of 1/AngleDen rad; a flow  *)
(* particle's curve parameter is in units of 1/PhaseDen.  A real product   *)
(* or quotient is rounded down to the unit.                                *)
(***************************************************************************)
EXTENDS Integers, Sequences, FiniteSets, TLC

\* ------------------------------------------------------------------ units
Micro    == 1000 * 1000
TimeDen  == 2 * 3
AngleDen == 100 * TimeDen
PhaseDen == 1000 * TimeDen
\* pi, rounded to the angle unit, and its half
PiA      == (314159 * AngleDen + 50000) \div 100000
HalfPiA  == PiA \div 2

\* ----------------------------------------------------------------- bounds
\* the host clock advances at most to MaxTime ticks
MaxTime   == 2
\* at most MaxFrames frame callbacks are run by the host
MaxFrames == 3
\* at most MaxEvents resize / mousemove / scroll events are delivered
MaxEvents == 2
\* the first AmbientTracked points of the ambient particle buffer are kept
AmbientTracked == 2
\* periodicity of a flow particle is compared over 1..MaxCycles cycles
MaxCycles == 2

\* -------------------------------------------------------------- Math.sin
Min(a, b) == IF a < b THEN a ELSE b

\* x^(n+2)/(n+2)! from t = x^n/n!, x in angle units, |x| <= HalfPiA + 1
TaylorNext(t, x, n) ==
    (((t * x) \div (AngleDen * (n + 1))) * x) \div (AngleDen * (n + 2))

\* sin on [0, pi/2], by its Taylor series to x^11
SinQ(x) ==
    LET t1  == (x * Micro) \div AngleDen
        t3  == TaylorNext(t1, x, 1)
        t5  == TaylorNext(t3, x, 3)
        t7  == TaylorNext(t5, x, 5)
        t9  == TaylorNext(t7, x, 7)
        t11 == TaylorNext(t9, x, 9)
    IN  t1 - t3 + t5 - t7 + t9 - t11

\* cos on [0, pi/2], by its Taylor series to x^12
CosQ(x) ==
    LET t0  == Micro
        t2  == TaylorNext(t0, x, 0)
        t4  == TaylorNext(t2, x, 2)
        t6  == TaylorNext(t4, x, 4)
        t8  == TaylorNext(t6, x, 6)
        t10 == TaylorNext(t8, x, 8)
        t12 == TaylorNext(t10, x, 10)
    IN  t0 - t2 + t4 - t6 + t8 - t10 + t12

\* Math.sin(a / AngleDen) * Micro, for a >= 0
Sin(a) ==
    LET r == a % (2 * PiA)
    IN  IF r <= HalfPiA THEN SinQ(r)
        ELSE IF r <= PiA THEN SinQ(PiA - r)
        ELSE IF r <= PiA + HalfPiA THEN -SinQ(r - PiA)
        ELSE -SinQ(2 * PiA - r)

\* Math.cos(a / AngleDen) * Micro, for a >= 0
Cos(a) ==
    LET r == a % (2 * PiA)
    IN  IF r <= HalfPiA THEN CosQ(r)
        ELSE IF r <= PiA THEN -CosQ(PiA - r)
        ELSE IF r <= PiA + HalfPiA THEN -CosQ(r - PiA)
        ELSE CosQ(2 * PiA - r)

\* ------------------------------------------------------------ program data
\* the variants of the class in the file
Variants == {"simple", "enhanced"}

\* nodeData of createNodes: pos in whole units, and the glow flag
NodeData(v) ==
    IF v = "simple"
    THEN << [pos |-> <<-12, 10, 0>>,  label |-> "SENSORS",   glow |-> FALSE],
            [pos |-> <<0, 12, 2>>,    label |-> "PLCs",      glow |-> FALSE],
            [pos |-> <<12, 10, 0>>,   label |-> "SCADA",     glow |-> FALSE],
            [pos |-> <<0, 0, 5>>,     label |-> "HISTORIAN", glow |-> TRUE],
            [pos |-> <<-12, -10, 0>>, label |-> "AI/ML",     glow |-> FALSE],
            [pos |-> <<0, -12, 2>>,   label |-> "DASHBOARD", glow |-> FALSE],
            [pos |-> <<12, -10, 0>>,  label |-> "REPORTS",   glow |-> FALSE] >>
    ELSE << [pos |-> <<-15, 12, -5>>,  label |-> "SENSORS",   glow |-> FALSE],
            [pos |-> <<0, 15, 0>>,     label |-> "PLCs",      glow |-> FALSE],
            [pos |-> <<15, 12, -5>>,   label |-> "SCADA",     glow |-> FALSE],
            [pos |-> <<0, 0, 8>>,      label |-> "HISTORIAN", glow |-> TRUE],
            [pos |-> <<-15, -12, -5>>, label |-> "AI/ML",     glow |-> FALSE],
            [pos |-> <<0, -15, 0>>,    label |-> "DASHBOARD", glow |-> FALSE],
            [pos |-> <<15, -12, -5>>,  label |-> "REPORTS",   glow |-> FALSE] >>

\* connections of createDataStreams, as 0-based node indices
Connections ==
    << [from |-> 0, to |-> 3], [from |-> 1, to |-> 3], [from |-> 2, to |-> 3],
       [from |-> 3, to |-> 4], [from |-> 3, to |-> 5], [from |-> 3, to |-> 6] >>

\* particleCount of createDataStream
particleCount == 8

\* the desktop threshold of the DOMContentLoaded handler
DesktopMinWidth == 1024

\* the build steps the constructor runs before animate(), per variant
BuildSteps(v) ==
    IF v = "simple"
    THEN <<"init", "createNodes", "createParticles", "createConnections", "addLights">>
    ELSE <<"init", "createBackground", "createNodes", "createDataStreams",
           "createAmbientParticles", "addLights">>

\* the steps of one animate() call, in the order of the code
FrameSteps(v) ==
    IF v = "simple"
    THEN <<"requestAnimationFrame", "getElapsedTime", "nodes", "particleSystem",
           "camera", "render">>
    ELSE <<"requestAnimationFrame", "getElapsedTime", "mouse", "nodes", "dataStreams",
           "ambientParticles", "camera", "render">>

\* the fields of the scene whose writers are recorded
Fields ==
    {"mouse", "targetMouse", "node.position", "node.rotation", "particle.position",
     "particle.opacity", "points.position", "points.rotation", "camera.position.x",
     "camera.position.y", "camera.position.z", "camera.aspect", "renderer.size",
     "container.opacity"}

\* -------------------------------------------------------------- the host
\* viewport sizes, pointer positions and scroll offsets the host may report
Viewports == {<<800, 600>>, <<1280, 800>>}
Pointers  == {<<160, 500>>, <<800, 100>>}
ScrollYs  == {0, 400, 1600}
ProbeScrollYs == {-200, 0, 300, 800, 1600}
ProbeHeights  == {0, 600, 800}

\* Math.random(): call number k (from 0) of the run, in [0, Micro); the run
\* draws the values below in rotation
RandomValues == <<0, 375000, 500000>>

Random(k) == RandomValues[(k % Len(RandomValues)) + 1]

VARIABLES
    variant,       \* which BlueforgeScene class the page loaded
    hasCanvas,     \* document.getElementById('hero-canvas') is not null
    threeDefined,  \* typeof THREE !== 'undefined'
    dom,           \* "loading" until DOMContentLoaded has been dispatched
    win,           \* window.innerWidth, innerHeight, scrollY
    now,           \* the host clock, in ticks
    targetValid,   \* the render target (canvas / GL context) is still valid
    events,        \* the number of input events delivered so far
    scene,         \* the BlueforgeScene instance, its host registrations, its log
    form,          \* the contact form of main.js: its closure state, status and log
    header,        \* the header scroll effect of main.js and its frame callback
    nav,           \* the mobile menu of main.js: classes, aria-expanded and its log
    probe          \* the last application of a pure function: its input and result

sceneVars == <<variant, hasCanvas, threeDefined, dom, win, now, targetValid, events, scene>>
vars == <<variant, hasCanvas, threeDefined, dom, win, now, targetValid, events, scene,
          form, header, nav, probe>>

\* ------------------------------------------------------------ the instance
\* the scene before `new BlueforgeScene()` has run
NoScene ==
    [ state        |-> "none",     \* "none", "inert" (no container) or "live"
      container    |-> FALSE,
      camera       |-> [x |-> 0, y |-> 0, z |-> 0, aspect |-> 0],
      rendererSize |-> <<0, 0>>,
      nodes        |-> <<>>,
      dataStreams  |-> <<>>,
      positionsY   |-> <<>>,       \* y of the tracked points of the point cloud
      pointsRotY   |-> 0,
      mouseX       |-> 0,
      mouseY       |-> 0,
      targetMouseX |-> 0,
      targetMouseY |-> 0,
      clockStart   |-> -1,         \* THREE.Clock: -1 until the clock has been started
      opacity      |-> Micro,      \* container.style.opacity
      listeners    |-> {},         \* the event types the instance listens to
      pending      |-> 0,          \* frame callbacks pending with requestAnimationFrame
      thrown       |-> "none",     \* the exception unwinding the running handler
      uncaught     |-> 0,          \* exceptions that reached the host
      \* observations of the run
      built        |-> <<>>,       \* the build steps run, in order
      lateBuild    |-> FALSE,      \* a build step ran after a frame iteration
      frames       |-> 0,          \* animate() calls
      firstFrameBuilt |-> <<>>,    \* `built` when the first animate() call began
      iter         |-> <<>>,       \* the steps of the latest animate() call
      lastTime     |-> 0,          \* the elapsed time it read
      renders      |-> 0,          \* render() calls
      iterRenders  |-> 0,          \* render() calls of the latest animate() call
      iterScheduled |-> 0,         \* requestAnimationFrame calls of the latest animate() call
      failedRenders |-> 0,         \* render() calls that failed
      framesAfterFailure |-> 0,    \* animate() calls begun after a failed render
      rendered     |-> [aspect |-> 0, size |-> <<0, 0>>, viewport |-> <<0, 0>>],
      writers      |-> [f \in Fields |-> {}],
      renderCallers |-> {},
      progress     |-> [kind |-> "finite", v |-> 0],  \* onScroll: progress
      nonFinite    |-> {} ]         \* the fields holding NaN or an infinity

\* run a step of a handler unless an exception is unwinding it
Do(Op(_), s) == IF s.thrown # "none" THEN s ELSE Op(s)

\* the handler has returned to the host: an exception still unwinding is uncaught
Return(s) ==
    IF s.thrown # "none"
    THEN [s EXCEPT !.thrown = "none", !.uncaught = @ + 1]
    ELSE s

\* record that a build step ran
Built(s, name) ==
    [s EXCEPT !.built = Append(@, name), !.lateBuild = @ \/ (s.frames > 0)]

\* record the handler that assigned the fields
Wrote(s, who, fields) ==
    [s EXCEPT !.writers = [f \in Fields |-> IF f \in fields THEN @[f] \cup {who} ELSE @[f]]]

\* window.innerWidth / window.innerHeight
Aspect(w, h) == (w * Micro) \div h

\* ------------------------------------------------------------ scene builder
\* init(): scene, camera and renderer
init(s) ==
    LET z0 == IF variant = "simple" THEN 30 * Micro ELSE 35 * Micro
    IN  Built([s EXCEPT !.camera = [x |-> 0, y |-> 0, z |-> z0,
                                    aspect |-> Aspect(win.innerWidth, win.innerHeight)],
                        !.rendererSize = <<win.innerWidth, win.innerHeight>>],
              "init")

\* createBackground(): the gradient sphere (enhanced scene)
createBackground(s) == Built(s, "createBackground")

\* the group or mesh of node i (0-based) as createNode returns it
createNode(data, i) ==
    LET p == <<data.pos[1] * Micro, data.pos[2] * Micro, data.pos[3] * Micro>>
    IN  IF variant = "simple"
        THEN [position |-> p, rotation |-> <<0, 0, 0>>, originalY |-> p[2],
              glow |-> data.glow]
        ELSE [position |-> p, rotation |-> <<0, 0, 0>>, originalPos |-> p,
              index |-> i, glow |-> data.glow,
              ringRotZ |-> 0, orbitRot |-> <<0, 0>>,
              auraScale |-> Micro, auraOpacity |-> Micro \div 10]

\* createNodes(): one node per entry of nodeData
createNodes(s) ==
    LET nd == NodeData(variant)
    IN  Built([s EXCEPT !.nodes = [k \in 1..Len(nd) |-> createNode(nd[k], k - 1)]],
              "createNodes")

\* createParticles(): the point cloud of the simple scene, y = (random - 0.5) * 30
createParticles(s) ==
    Built([s EXCEPT !.positionsY =
               [k \in 1..AmbientTracked |->
                    (Random(5 * (k - 1) + 2) - Micro \div 2) * 30]],
          "createParticles")

\* createConnections(): the static lines of the simple scene
createConnections(s) == Built(s, "createConnections")

\* createDataStream(fromPos, toPos, color, index): the curve and its flow particles
createDataStream(fromPos, toPos, idx) ==
    LET half == Micro \div 2
        mid  == << (fromPos[1] + toPos[1]) * half,
                   (fromPos[2] + toPos[2]) * half,
                   (fromPos[3] + toPos[3]) * half + 5 * Micro >>
        from == <<fromPos[1] * Micro, fromPos[2] * Micro, fromPos[3] * Micro>>
        to   == <<toPos[1] * Micro, toPos[2] * Micro, toPos[3] * Micro>>
    IN  [ curve |-> <<from, mid, to>>,
          particles |->
            [k \in 1..particleCount |->
                [ offset   |-> ((k - 1) * Micro) \div particleCount,
                  speed    |-> (3 * Micro) \div 10
                               + (Random(idx * particleCount + (k - 1)) * 2) \div 10,
                  t        |-> 0,
                  position |-> <<0, 0, 0>>,
                  opacity  |-> (9 * Micro) \div 10 ]] ]

\* createDataStreams(): one stream per connection
\* (this.nodes[conn.from] is undefined, and reading its data throws, before createNodes)
createDataStreams(s) ==
    IF Len(s.nodes) < Len(NodeData(variant))
    THEN [s EXCEPT !.thrown = "TypeError"]
    ELSE Built([s EXCEPT !.dataStreams =
                    [c \in 1..Len(Connections) |->
                         createDataStream(NodeData(variant)[Connections[c].from + 1].pos,
                                          NodeData(variant)[Connections[c].to + 1].pos,
                                          c - 1)]],
               "createDataStreams")

\* createAmbientParticles(): the point cloud of the enhanced scene, y = (random - 0.5) * 60;
\* the data streams drew Math.random() once per flow particle before it
createAmbientParticles(s) ==
    Built([s EXCEPT !.positionsY =
               [k \in 1..AmbientTracked |->
                    (Random(Len(Connections) * particleCount + 5 * (k - 1) + 1)
                     - Micro \div 2) * 60]],
          "createAmbientParticles")

\* addLights()
addLights(s) == Built(s, "addLights")

\* addEventListeners()
addEventListeners(s) ==
    [s EXCEPT !.listeners = @ \cup {"resize", "mousemove", "scroll"}]

\* ----------------------------------------------------------- frame animator
\* time * (c / 1000) + i * (d / 1000) as an angle, for Math.sin and Math.cos
Angle(time, c, i, d) == (time * c * AngleDen) \div (1000 * TimeDen) + (i * d * AngleDen) \div 1000

\* time * (c / 1000) + i * (d / 1000) as a rotation, in units of 1/Micro rad
Rad(time, c, i, d) == (time * c * 1000) \div TimeDen + i * d * 1000

\* record a step of the running animate() call
Step(s, name) == [s EXCEPT !.iter = Append(@, name)]

\* animate() is entered
BeginFrame(s) ==
    [s EXCEPT !.frames = @ + 1,
              !.firstFrameBuilt = IF s.frames = 0 THEN s.built ELSE @,
              !.framesAfterFailure = IF s.failedRenders > 0 THEN @ + 1 ELSE @,
              !.iter = <<>>, !.iterRenders = 0, !.iterScheduled = 0]

\* requestAnimationFrame(() => this.animate())
requestFrame(s) ==
    Step([s EXCEPT !.pending = @ + 1, !.iterScheduled = @ + 1], "requestAnimationFrame")

\* this.clock.getElapsedTime(): the first call starts the clock and returns 0
getElapsedTime(s) ==
    Step(IF s.clockStart < 0
         THEN [s EXCEPT !.clockStart = now, !.lastTime = 0]
         ELSE [s EXCEPT !.lastTime = now - s.clockStart],
         "getElapsedTime")

\* smooth mouse following (enhanced scene)
smoothMouse(s) ==
    Step(Wrote([s EXCEPT !.mouseX = @ + ((s.targetMouseX - @) * 5) \div 100,
                         !.mouseY = @ + ((s.targetMouseY - @) * 5) \div 100],
               "animate", {"mouse"}),
         "mouse")

\* animateNode with the floating offsets accumulated into the stored original position
animateNodeDrift(n, i, time) ==
    IF variant = "simple"
    THEN [n EXCEPT !.position = << @[1],
                                   n.originalY + (Sin(Angle(time, 800, i, 1000)) * 5) \div 10,
                                   @[3] >>,
                   !.originalY = @ + (Sin(Angle(time, 800, i, 1000)) * 5) \div 10]
    ELSE [n EXCEPT !.position = << n.originalPos[1] + (Cos(Angle(time, 500, i, 300)) * 3) \div 10,
                                   n.originalPos[2] + (Sin(Angle(time, 800, i, 500)) * 8) \div 10,
                                   @[3] >>,
                   !.originalPos = << @[1] + (Cos(Angle(time, 500, i, 300)) * 3) \div 10,
                                      @[2] + (Sin(Angle(time, 800, i, 500)) * 8) \div 10,
                                      @[3] >>]

\* animateNode with the per-index phase of the floating offsets left out
animateNodeNoPhase(n, i, time) ==
    IF variant = "simple"
    THEN [n EXCEPT !.position = << @[1],
                                   n.originalY + (Sin(Angle(time, 800, 0, 0)) * 5) \div 10,
                                   @[3] >>]
    ELSE [n EXCEPT !.position = << n.originalPos[1] + (Cos(Angle(time, 500, 0, 0)) * 3) \div 10,
                                   n.originalPos[2] + (Sin(Angle(time, 800, 0, 0)) * 8) \div 10,
                                   @[3] >>]

\* the node loop body for node n = this.nodes[i]
animateNode(n, i, time) ==
    IF variant = "simple"
    THEN [n EXCEPT !.rotation = << @[1], Rad(time, 300, i, 1000),
                                   Sin(Angle(time, 500, i, 1000)) \div 10 >>,
                   !.position = << @[1],
                                   n.originalY + (Sin(Angle(time, 800, i, 1000)) * 5) \div 10,
                                   @[3] >>]
    ELSE [n EXCEPT !.position = << n.originalPos[1] + (Cos(Angle(time, 500, i, 300)) * 3) \div 10,
                                   n.originalPos[2] + (Sin(Angle(time, 800, i, 500)) * 8) \div 10,
                                   @[3] >>,
                   !.rotation = << @[1], Rad(time, 300, i, 500),
                                   Sin(Angle(time, 400, i, 1000)) \div 10 >>,
                   !.ringRotZ = Rad(time, 500, 0, 0),
                   !.orbitRot = << Rad(time, 300, 0, 0), Rad(time, 1500, 0, 0) >>,
                   !.auraScale = IF n.glow
                                 THEN Micro + (Sin(Angle(time, 2000, 0, 0)) * 15) \div 100
                                 ELSE @,
                   !.auraOpacity = IF n.glow
                                   THEN (5 * Micro) \div 100
                                        + (Sin(Angle(time, 2000, 0, 0)) * 5) \div 100
                                   ELSE @]

\* this.nodes.forEach((node, i) => ...)
animateNodes(s) ==
    Step(Wrote([s EXCEPT !.nodes = [k \in 1..Len(@) |-> animateNode(@[k], k - 1, s.lastTime)]],
               "animate", {"node.position", "node.rotation"}),
         "nodes")

\* Phase without the reduction modulo 1
PhaseNoWrap(time, speed, offset) == (time * speed + offset * TimeDen) \div 1000

\* (time * speed + offset) % 1, in units of 1/PhaseDen
Phase(time, speed, offset) == ((time * speed + offset * TimeDen) \div 1000) % PhaseDen

\* one coordinate of QuadraticBezierCurve3.getPoint(t):
\* (1-t)^2 v0 + 2 (1-t) t v1 + t^2 v2, the control points being multiples of 1/2
Bezier(t, v0, v1, v2) ==
    LET k    == PhaseDen - t
        half == Micro \div 2
    IN  (k * k * (v0 \div half) + 2 * k * t * (v1 \div half) + t * t * (v2 \div half))
        \div ((2 * PhaseDen * PhaseDen) \div Micro)

\* stream.curve.getPoint(t)
getPoint(curve, t) ==
    [c \in 1..3 |-> Bezier(t, curve[1][c], curve[2][c], curve[3][c])]

\* the fade of a flow particle at curve parameter t
FadeNoFadeOut(t) ==
    LET fadeZone == (15 * PhaseDen) \div 100
        full     == (9 * Micro) \div 10
    IN  IF t < fadeZone THEN (t * full) \div fadeZone ELSE full

Fade(t) ==
    LET fadeZone == (15 * PhaseDen) \div 100
        full     == (9 * Micro) \div 10
        o1       == IF t < fadeZone THEN (t * full) \div fadeZone ELSE full
    IN  IF t > PhaseDen - fadeZone THEN ((PhaseDen - t) * full) \div fadeZone ELSE o1

\* animateParticle advancing the phase by a fixed amount per frame (speed / 60)
animateParticleByFrame(p, curve, time) ==
    LET t == (p.t + p.speed \div 10000) % PhaseDen
    IN  [p EXCEPT !.t = t, !.position = getPoint(curve, t), !.opacity = Fade(t)]

\* the body of stream.particles.forEach(particle => ...)
animateParticle(p, curve, time) ==
    LET t == Phase(time, p.speed, p.offset)
    IN  [p EXCEPT !.t = t, !.position = getPoint(curve, t), !.opacity = Fade(t)]

\* this.dataStreams.forEach((stream, idx) => ...)
animateDataStreams(s) ==
    Step(Wrote([s EXCEPT !.dataStreams =
                    [c \in 1..Len(@) |->
                        [@[c] EXCEPT !.particles =
                            [k \in 1..Len(@) |-> animateParticle(@[k], s.dataStreams[c].curve,
                                                                 s.lastTime)]]]],
               "animate", {"particle.position", "particle.opacity"}),
         "dataStreams")

\* the point cloud of the simple scene: rotate, and move every point down
animateParticleSystem(s) ==
    Step(Wrote([s EXCEPT !.pointsRotY = Rad(s.lastTime, 50, 0, 0),
                         !.positionsY =
                            [k \in 1..Len(@) |->
                                IF @[k] - (5 * Micro) \div 100 < -15 * Micro
                                THEN 15 * Micro
                                ELSE @[k] - (5 * Micro) \div 100]],
               "animate", {"points.position", "points.rotation"}),
         "particleSystem")

\* the point cloud of the enhanced scene: rotate, and drift every point;
\* point k is at index i = 3 (k - 1) of the position buffer
animateAmbientParticles(s) ==
    Step(Wrote([s EXCEPT !.pointsRotY = Rad(s.lastTime, 20, 0, 0),
                         !.positionsY =
                            [k \in 1..Len(@) |->
                                @[k] + (Sin(Angle(s.lastTime, 1000, 3 * (k - 1), 1000)) * 2)
                                       \div 1000]],
               "animate", {"points.position", "points.rotation"}),
         "ambientParticles")

\* camera parallax
animateCamera(s) ==
    Step(IF variant = "simple"
         THEN Wrote([s EXCEPT !.camera.x = @ + ((s.mouseX * 3 - @) * 2) \div 100,
                              !.camera.y = @ + ((-(s.mouseY * 2) - @) * 2) \div 100],
                    "animate", {"camera.position.x", "camera.position.y"})
         ELSE Wrote([s EXCEPT !.camera.x = s.mouseX * 5,
                              !.camera.y = @ + ((-(s.mouseY * 3) - @) * 10) \div 100],
                    "animate", {"camera.position.x", "camera.position.y"}),
         "camera")

\* this.renderer.render(this.scene, this.camera): fails when the target is invalid
render(s) ==
    LET r == Step([s EXCEPT !.renders = @ + 1, !.iterRenders = @ + 1,
                            !.renderCallers = @ \cup {"animate"}],
                  "render")
    IN  IF targetValid
        THEN [r EXCEPT !.rendered = [aspect |-> s.camera.aspect, size |-> s.rendererSize,
                                     viewport |-> <<win.innerWidth, win.innerHeight>>]]
        ELSE [r EXCEPT !.failedRenders = @ + 1, !.thrown = "render"]

\* animate() with the next frame requested after the render instead of first
animateScheduleLast(s) ==
    LET a0 == BeginFrame(s)
        a2 == Do(getElapsedTime, a0)
    IN  IF variant = "simple"
        THEN LET a3 == Do(animateNodes, a2)
                 a4 == Do(animateParticleSystem, a3)
                 a5 == Do(animateCamera, a4)
             IN  Do(requestFrame, Do(render, a5))
        ELSE LET a3 == Do(smoothMouse, a2)
                 a4 == Do(animateNodes, a3)
                 a5 == Do(animateDataStreams, a4)
                 a6 == Do(animateAmbientParticles, a5)
                 a7 == Do(animateCamera, a6)
             IN  Do(requestFrame, Do(render, a7))

\* animate(): one frame iteration
animate(s) ==
    LET a0 == BeginFrame(s)
        a1 == Do(requestFrame, a0)
        a2 == Do(getElapsedTime, a1)
    IN  IF variant = "simple"
        THEN LET a3 == Do(animateNodes, a2)
                 a4 == Do(animateParticleSystem, a3)
                 a5 == Do(animateCamera, a4)
             IN  Do(render, a5)
        ELSE LET a3 == Do(smoothMouse, a2)
                 a4 == Do(animateNodes, a3)
                 a5 == Do(animateDataStreams, a4)
                 a6 == Do(animateAmbientParticles, a5)
                 a7 == Do(animateCamera, a6)
             IN  Do(render, a7)

\* ------------------------------------------------------------ input tracker
\* onResize() that also calls animate() to redraw at once
onResizeAnimate(s, w, h) ==
    animate(Wrote([s EXCEPT !.camera.aspect = Aspect(w, h), !.rendererSize = <<w, h>>],
                  "onResize", {"camera.aspect", "renderer.size"}))

\* onResize() that resizes the renderer but leaves the camera's aspect alone
onResizeSizeOnly(s, w, h) ==
    Wrote([s EXCEPT !.rendererSize = <<w, h>>], "onResize", {"renderer.size"})

\* onResize(), with the viewport the window now has
onResize(s, w, h) ==
    Wrote([s EXCEPT !.camera.aspect = Aspect(w, h), !.rendererSize = <<w, h>>],
          "onResize", {"camera.aspect", "renderer.size"})

\* (e.clientX / window.innerWidth) * 2 - 1
Normalised(c, extent) == ((c * Micro) \div extent) * 2 - Micro

\* onMouseMove(e)
onMouseMove(s, clientX, clientY) ==
    IF variant = "simple"
    THEN Wrote([s EXCEPT !.mouseX = Normalised(clientX, win.innerWidth),
                         !.mouseY = Normalised(clientY, win.innerHeight)],
               "onMouseMove", {"mouse"})
    ELSE Wrote([s EXCEPT !.targetMouseX = Normalised(clientX, win.innerWidth),
                         !.targetMouseY = Normalised(clientY, win.innerHeight)],
               "onMouseMove", {"targetMouse"})

\* a / b as JavaScript computes it: a finite number (in units of 1/Micro) when
\* b is not zero, and Infinity, -Infinity or NaN when it is
Quotient(a, b) ==
    IF b # 0 THEN [kind |-> "finite", v |-> (a * Micro) \div b]
    ELSE IF a > 0 THEN [kind |-> "Infinity", v |-> 0]
    ELSE IF a < 0 THEN [kind |-> "-Infinity", v |-> 0]
    ELSE [kind |-> "NaN", v |-> 0]

\* Math.min(q, 1): NaN stays NaN, Infinity gives 1
MinOne(q) ==
    IF q.kind = "finite" THEN [q EXCEPT !.v = Min(@, Micro)]
    ELSE IF q.kind = "Infinity" THEN [kind |-> "finite", v |-> Micro]
    ELSE q

\* Math.min(scrollY / heroHeight, 1)
Progress(scrollY, heroHeight) == MinOne(Quotient(scrollY, heroHeight))

\* onScroll() that also recentres the pointer state while the page scrolls
onScrollRecentre(s, scrollY) ==
    LET p == Progress(scrollY, win.innerHeight)
    IN  Wrote([s EXCEPT !.progress = p,
                        !.opacity = Micro - p.v,
                        !.camera.z = 30 * Micro + p.v * 20,
                        !.mouseX = 0, !.mouseY = 0,
                        !.targetMouseX = 0, !.targetMouseY = 0],
              "onScroll", {"container.opacity", "camera.position.z", "mouse"})

\* onScroll(), with the scroll offset the window now has; a progress that is
\* not finite makes every value computed from it not finite
onScroll(s, scrollY) ==
    LET p        == Progress(scrollY, win.innerHeight)
        progress == p.v
        fields   == IF variant = "simple"
                    THEN {"container.opacity", "camera.position.z"}
                    ELSE {"container.opacity", "camera.position.z", "camera.position.y"}
        t        == [s EXCEPT !.progress = p]
    IN  IF p.kind # "finite"
        THEN Wrote([t EXCEPT !.nonFinite = @ \cup fields], "onScroll", fields)
        ELSE IF variant = "simple"
        THEN Wrote([t EXCEPT !.opacity = IF s.container THEN Micro - progress ELSE @,
                             !.camera.z = 30 * Micro + progress * 20,
                             !.nonFinite = @ \ fields],
                   "onScroll", fields)
        ELSE Wrote([t EXCEPT !.opacity = IF s.container
                                         THEN Micro - (progress * 15) \div 10 ELSE @,
                             !.camera.z = 35 * Micro + progress * 30,
                             !.camera.y = -(progress * 10),
                             !.nonFinite = @ \ fields],
                   "onScroll", fields)

\* -------------------------------------------------------------- start-up
\* this.clock = new THREE.Clock(): a ReferenceError when THREE is not defined
newClock(s) ==
    IF threeDefined THEN [s EXCEPT !.clockStart = -1] ELSE [s EXCEPT !.thrown = "ReferenceError"]

\* the build steps of the constructor, from init() to addLights()
build(s) ==
    IF variant = "simple"
    THEN Do(addLights, Do(createConnections, Do(createParticles, Do(createNodes, Do(init, s)))))
    ELSE Do(addLights, Do(createAmbientParticles, Do(createDataStreams,
            Do(createNodes, Do(createBackground, Do(init, s))))))

\* the constructor without the early return for a missing container
constructorUnguarded(s) ==
    Do(addEventListeners,
       Do(animate,
          Do(build,
             Do(newClock, [s EXCEPT !.state = "live", !.container = hasCanvas]))))

\* the constructor with animate() called before addLights()
constructorAnimateEarly(s) ==
    IF ~hasCanvas
    THEN [s EXCEPT !.state = "inert"]
    ELSE LET c0 == Do(newClock, [s EXCEPT !.state = "live", !.container = TRUE])
             c1 == IF variant = "simple"
                   THEN Do(createConnections, Do(createParticles, Do(createNodes, Do(init, c0))))
                   ELSE Do(createAmbientParticles, Do(createDataStreams,
                           Do(createNodes, Do(createBackground, Do(init, c0)))))
         IN  Do(addEventListeners, Do(addLights, Do(animate, c1)))

\* new BlueforgeScene()
constructor(s) ==
    IF ~hasCanvas
    THEN [s EXCEPT !.state = "inert"]
    ELSE Do(addEventListeners,
            Do(animate,
               Do(build,
                  Do(newClock, [s EXCEPT !.state = "live", !.container = TRUE]))))

\* the DOMContentLoaded listener without the check that THREE has loaded
onDOMContentLoadedUnchecked(s) ==
    IF win.innerWidth > DesktopMinWidth
    THEN constructor(s)
    ELSE s

\* the DOMContentLoaded listener: desktop only, and only when THREE has loaded
onDOMContentLoaded(s) ==
    IF win.innerWidth > DesktopMinWidth /\ threeDefined
    THEN constructor(s)
    ELSE s

\* ------------------------------------------------------------ contact form
\* main.js: initFormValidation and its helpers.  Times are in milliseconds.
maxSubmissions == 3
submissionWindow == 60 * 1000
MinFillTime == 3 * 1000
HideDelay == 5 * 1000
PageEpoch == 1000
Null == 0

\* the bounds of a run of the form
MaxSubmits == 5
MaxAdvances == 4
\* the instants at which the visitor and the network act: the load of the
\* page, 3 s and 6 s later, and every 30 s after that
ClockStep(k) == IF k < 2 THEN MinFillTime ELSE submissionWindow \div 2

\* what the validators compute from the field values a visitor enters (the
\* values of Fillings): value.trim().length, emailRegex.test(value), and the
\* test for the XSS patterns
TrimmedLength(v) ==
    CASE v = "" -> 0
      [] v = "  " -> 0
      [] v = "Ann" -> 3
      [] v = "ann@example.com" -> 15
      [] v = "ann@example" -> 11
      [] v = "javascript:alert(1)" -> 19
      [] OTHER -> 20
emailRegex(v) == v = "ann@example.com"

containsMaliciousContent(v) == v = "javascript:alert(1)"

\* the required fields of the form, and the ways a visitor fills them in
RequiredFields ==
    << [name |-> "name", type |-> "text"],
       [name |-> "email", type |-> "email"],
       [name |-> "message", type |-> "textarea"] >>
Fillings ==
    { <<"Ann", "ann@example.com", "Please call me back.">>,
      <<"  ", "ann@example.com", "Please call me back.">>,
      <<"Ann", "ann@example", "Please call me back.">>,
      <<"Ann", "ann@example.com", "javascript:alert(1)">>,
      <<"Ann", "ann@example.com", "Ann">> }

\* validateField(field) for a required field holding value v
validateField(field, v) ==
    IF TrimmedLength(v) = 0 THEN FALSE
    ELSE IF field.type = "email" /\ ~emailRegex(v) THEN FALSE
    ELSE IF containsMaliciousContent(v) THEN FALSE
    ELSE IF field.name = "message" /\ TrimmedLength(v) < 10 THEN FALSE
    ELSE TRUE

\* validateForm(form): every required field is valid
validateForm(values) ==
    \A k \in 1..Len(RequiredFields) : validateField(RequiredFields[k], values[k])

\* no submit event yet
NoSubmit ==
    [sinceLoad |-> 0, honeypot |-> "", rate |-> "not reached",
     valid |-> FALSE, validated |-> FALSE, shown |-> "none", sent |-> "no"]

\* the state of the form before initFormValidation has run
NoForm ==
    [state |-> "none", clock |-> PageEpoch, grecaptcha |-> FALSE, hasHoneypot |-> FALSE,
     formLoadTime |-> 0, submissionCount |-> 0, firstSubmissionTime |-> Null,
     status |-> [type |-> "none", message |-> "", display |-> FALSE],
     shownAt |-> Null, timers |-> <<>>, captcha |-> <<>>, inflight |-> 0,
     last |-> NoSubmit, windowPasses |-> 0, passes |-> <<>>,
     submits |-> 0, advances |-> 0]

\* initFormValidation(): the closure state, with formLoadTime = Date.now()
initFormValidation(f, captchaLoaded, honeypotPresent) ==
    [f EXCEPT !.state = "ready", !.grecaptcha = captchaLoaded,
              !.hasHoneypot = honeypotPresent,
              !.formLoadTime = f.clock, !.submissionCount = 0,
              !.firstSubmissionTime = Null]

\* showFormStatus(type, message): show it, and start a timer that hides the
\* status element unless the type is 'sending'
showFormStatus(f, type, message) ==
    [f EXCEPT !.status = [type |-> type, message |-> message, display |-> TRUE],
              !.shownAt = f.clock,
              !.timers = IF type # "sending" THEN Append(@, f.clock + HideDelay) ELSE @]

\* submitFormToWeb3Forms(): the POST of the form data, for the submit event o
submitFormToWeb3Forms(f, o) == [f EXCEPT !.inflight = @ + 1]


\* the rate limiting check without the count of the submit at hand
rateLimitNoCount(f) ==
    IF f.firstSubmissionTime # Null /\ f.clock - f.firstSubmissionTime < submissionWindow
    THEN [form |-> f, pass |-> ~(f.submissionCount > maxSubmissions)]
    ELSE [form |-> [f EXCEPT !.firstSubmissionTime = f.clock, !.submissionCount = 1],
          pass |-> TRUE]

\* the rate limiting check of the submit handler: the closure state after it,
\* and whether the handler goes on
rateLimit(f) ==
    IF f.firstSubmissionTime # Null /\ f.clock - f.firstSubmissionTime < submissionWindow
    THEN [form |-> [f EXCEPT !.submissionCount = @ + 1],
          pass |-> ~(f.submissionCount + 1 > maxSubmissions)]
    ELSE [form |-> [f EXCEPT !.firstSubmissionTime = f.clock, !.submissionCount = 1],
          pass |-> TRUE]

\* the submit at hand has passed the rate limiting check: count it in its
\* window, and keep the times of the latest maxSubmissions + 1 passes
Passed(f, g) ==
    [g EXCEPT !.windowPasses = IF g.firstSubmissionTime = f.firstSubmissionTime
                               THEN @ + 1 ELSE 1,
              !.passes = LET all == Append(@, f.clock)
                         IN  IF Len(all) > maxSubmissions + 1 THEN Tail(all) ELSE all]

\* the end of the submit handler: 'sending' is shown, then the form is posted,
\* at once or when the reCAPTCHA token request settles
send(f, o) ==
    LET g == showFormStatus(f, "sending", "Verifying and sending your message...")
        p == [o EXCEPT !.shown = "sending"]
    IN  IF f.grecaptcha
        THEN [g EXCEPT !.captcha = Append(@, p), !.last = [p EXCEPT !.sent = "queued"]]
        ELSE submitFormToWeb3Forms([g EXCEPT !.last = [p EXCEPT !.sent = "posted"]], p)

\* the submit handler's end without the return after a failed validation
validateAndSendUnchecked(f, v) == send(f, v)

\* the end of the submit handler: return when validateForm fails, else send
validateAndSend(f, v) ==
    IF ~v.valid THEN [f EXCEPT !.last = v] ELSE send(f, v)

\* the submit listener of the contact form, for the honeypot value and the
\* field values the form holds at the event
onSubmit(f, honeypot, values) ==
    LET o == [NoSubmit EXCEPT !.sinceLoad = f.clock - f.formLoadTime,
                              !.honeypot = honeypot]
        r == rateLimit(f)
        v == [o EXCEPT !.rate = "passed", !.validated = TRUE,
                       !.valid = validateForm(values)]
    IN  IF o.sinceLoad < MinFillTime
        THEN [showFormStatus(f, "error", "Please take your time filling out the form.")
                 EXCEPT !.last = [o EXCEPT !.shown = "error"]]
        ELSE IF f.hasHoneypot /\ honeypot # ""
        THEN [showFormStatus(f, "success", "Thank you for your message!")
                 EXCEPT !.last = [o EXCEPT !.shown = "success"]]
        ELSE IF ~r.pass
        THEN [showFormStatus(r.form, "error", "Too many submissions. Please try again later.")
                 EXCEPT !.last = [o EXCEPT !.rate = "rejected", !.shown = "error"]]
        ELSE validateAndSend(Passed(f, r.form), v)

\* the token request of a submit event settles (either way): the form is posted
onCaptchaSettled(f) ==
    submitFormToWeb3Forms([f EXCEPT !.captcha = Tail(@)], Head(f.captcha))

\* the reply to a POST arrives, or the POST fails
onReply(f, outcome) ==
    LET g == [f EXCEPT !.inflight = @ - 1]
    IN  CASE outcome = "success" ->
               showFormStatus(g, "success", "Thank you! We'll get back to you within 24 hours.")
          [] outcome = "failure" ->
               showFormStatus(g, "error",
                              "Something went wrong. Please try again or email us directly.")
          [] OTHER ->
               showFormStatus(g, "error",
                              "Connection error. Please try again or email us directly.")

\* an auto-hide timer of showFormStatus fires
onHideTimer(f) ==
    [f EXCEPT !.status.display = FALSE, !.timers = Tail(@)]

\* ------------------------------------------------------------ header scroll
\* main.js: initHeaderScroll.  Offsets are in pixels.
scrollThreshold == 100
MaxScrolls == 4
PageOffsets == {0, 50, scrollThreshold, scrollThreshold + 1, 600}

\* the header before initHeaderScroll has run
NoHeader ==
    [state |-> "none", pageYOffset |-> 0, lastScroll |-> 0, scrolled |-> FALSE,
     ticking |-> FALSE, pending |-> 0, unseen |-> FALSE, scrolls |-> 0, runs |-> 0]

\* initHeaderScroll(): lastScroll = 0, ticking = false, the listener attached
initHeaderScroll(h) ==
    [h EXCEPT !.state = "ready", !.lastScroll = 0, !.ticking = FALSE]

\* handleScroll(): set or remove the class 'scrolled' from the offset read now
handleScroll(h) ==
    [h EXCEPT !.scrolled = h.pageYOffset > scrollThreshold,
              !.lastScroll = h.pageYOffset]

\* the frame callback that leaves ticking set
headerFrameKeepTicking(h) ==
    [handleScroll(h) EXCEPT !.unseen = FALSE, !.runs = @ + 1]

\* the frame callback of the throttle: handleScroll(), then ticking = false
headerFrame(h) ==
    [handleScroll(h) EXCEPT !.ticking = FALSE, !.unseen = FALSE, !.runs = @ + 1]

\* the scroll listener of the throttle: request one frame unless one is pending
headerScroll(h) ==
    LET g == [h EXCEPT !.unseen = TRUE, !.scrolls = @ + 1]
    IN  IF ~h.ticking
        THEN [g EXCEPT !.pending = @ + 1, !.ticking = TRUE]
        ELSE g

\* --------------------------------------------------------------- navigation
\* main.js: initNavigation, the mobile menu.  The two elements it looks up,
\* '.mobile-toggle' and '.nav-links', carry the class 'active' or not; the
\* toggle carries the attribute aria-expanded or not.
MaxNavEvents == 3
ClickTargets == {"toggle", "nav", "outside"}
Keys == {"Escape", "Enter"}

\* the markup the page is served with: either element may be missing; the menu
\* is authored closed or open, the class on both elements or on neither; the
\* attribute aria-expanded is left out or authored "false"
Markups ==
    { [hasToggle |-> t, hasNav |-> n,
       toggleActive |-> t /\ o, navActive |-> n /\ o,
       ariaExpanded |-> IF t THEN a ELSE "absent"] :
         t \in BOOLEAN, n \in BOOLEAN, o \in BOOLEAN, a \in {"absent", "false"} }

\* the menu before initNavigation has run
NoNav ==
    [state |-> "none", listening |-> FALSE, toggleActive |-> FALSE,
     navActive |-> FALSE, ariaExpanded |-> "absent", log |-> <<>>]

\* initNavigation(): the three listeners are attached if both elements exist
initNavigation(n, markup) ==
    [n EXCEPT !.state = "ready",
              !.listening = markup.hasToggle /\ markup.hasNav,
              !.toggleActive = markup.toggleActive,
              !.navActive = markup.navActive,
              !.ariaExpanded = markup.ariaExpanded]

\* setAttribute('aria-expanded', isExpanded): the boolean as its string
BooleanString(b) == IF b THEN "true" ELSE "false"

\* the click listener of the toggle: toggle the class on each element, then
\* set aria-expanded from the class of the nav links
onToggleClick(n) ==
    LET isExpanded == ~n.navActive
    IN  [n EXCEPT !.toggleActive = ~n.toggleActive,
                  !.navActive = isExpanded,
                  !.ariaExpanded = BooleanString(isExpanded)]

\* the statements that close the menu, the same in both document listeners
closeMenu(n) ==
    [n EXCEPT !.toggleActive = FALSE, !.navActive = FALSE, !.ariaExpanded = "false"]

\* the click listener of the document: close unless the target lies in the
\* toggle or in the nav links
onDocumentClick(n, target) ==
    IF target # "toggle" /\ target # "nav" THEN closeMenu(n) ELSE n

\* a keydown listener that removes the class from the nav links only
onKeydownNavOnly(n, key) ==
    IF key = "Escape" /\ n.navActive
    THEN [n EXCEPT !.navActive = FALSE, !.ariaExpanded = "false"]
    ELSE n

\* the keydown listener of the document: Escape closes an open menu
onKeydown(n, key) ==
    IF key = "Escape" /\ n.navActive THEN closeMenu(n) ELSE n

\* a click is dispatched to its target and bubbles to the document
click(n, target) ==
    LET atTarget == IF n.listening /\ target = "toggle" THEN onToggleClick(n) ELSE n
        atDocument == IF n.listening THEN onDocumentClick(atTarget, target) ELSE atTarget
    IN  [atDocument EXCEPT !.log = Append(@, target)]

\* a keydown is dispatched to the document
keydown(n, key) ==
    [(IF n.listening THEN onKeydown(n, key) ELSE n) EXCEPT !.log = Append(@, key)]

\* -------------------------------------------------- pure functions applied
\* no function has been applied yet
NoProbe == [fn |-> "none", arg |-> <<>>, result |-> <<>>]

\* the record of one application
Applied(fn, arg, result) == [fn |-> fn, arg |-> arg, result |-> <<result>>]

\* ---------------------------------------------------------------- actions
Init ==
    /\ variant \in Variants
    /\ hasCanvas \in BOOLEAN
    /\ threeDefined \in BOOLEAN
    /\ dom = "loading"
    /\ \E v \in Viewports : win = [innerWidth |-> v[1], innerHeight |-> v[2], scrollY |-> 0]
    /\ now = 0
    /\ targetValid = TRUE
    /\ events = 0
    /\ scene = NoScene
    /\ form = NoForm
    /\ header = NoHeader
    /\ probe = NoProbe
    /\ nav = NoNav

\* the document has been parsed: the host dispatches DOMContentLoaded
DOMContentLoaded ==
    /\ dom = "loading"
    /\ dom' = "ready"
    /\ scene' = Return(onDOMContentLoaded(scene))
    /\ UNCHANGED <<variant, hasCanvas, threeDefined, win, now, targetValid, events, form, header, probe, nav>>

\* the viewport is resized to (w, h): the host dispatches resize
Resize ==
    /\ dom = "ready"
    /\ targetValid
    /\ events < MaxEvents
    /\ \E v \in Viewports :
          /\ v # <<win.innerWidth, win.innerHeight>>
          /\ win' = [win EXCEPT !.innerWidth = v[1], !.innerHeight = v[2]]
          /\ scene' = IF "resize" \in scene.listeners
                      THEN Return(onResize(scene, v[1], v[2]))
                      ELSE scene
    /\ events' = events + 1
    /\ UNCHANGED <<variant, hasCanvas, threeDefined, dom, now, targetValid, form, header, probe, nav>>

\* the pointer moves to (clientX, clientY): the host dispatches mousemove
MouseMove ==
    /\ dom = "ready"
    /\ targetValid
    /\ events < MaxEvents
    /\ \E e \in Pointers :
          /\ e[1] <= win.innerWidth
          /\ e[2] <= win.innerHeight
          /\ scene' = IF "mousemove" \in scene.listeners
                      THEN Return(onMouseMove(scene, e[1], e[2]))
                      ELSE scene
    /\ events' = events + 1
    /\ UNCHANGED <<variant, hasCanvas, threeDefined, dom, win, now, targetValid, form, header, probe, nav>>

\* the page is scrolled to offset y: the host dispatches scroll
Scroll ==
    /\ dom = "ready"
    /\ targetValid
    /\ events < MaxEvents
    /\ \E y \in ScrollYs :
          /\ y # win.scrollY
          /\ win' = [win EXCEPT !.scrollY = y]
          /\ scene' = IF "scroll" \in scene.listeners
                      THEN Return(onScroll(scene, y))
                      ELSE scene
    /\ events' = events + 1
    /\ UNCHANGED <<variant, hasCanvas, threeDefined, dom, now, targetValid, form, header, probe, nav>>

\* the host clock advances by one tick
Tick ==
    /\ dom = "ready"
    /\ now < MaxTime
    /\ now' = now + 1
    /\ UNCHANGED <<variant, hasCanvas, threeDefined, dom, win, targetValid, events, scene, form, header, probe, nav>>

\* the host runs a pending frame callback
Frame ==
    /\ scene.pending > 0
    /\ scene.frames < MaxFrames
    /\ scene' = Return(animate([scene EXCEPT !.pending = @ - 1]))
    /\ UNCHANGED <<variant, hasCanvas, threeDefined, dom, win, now, targetValid, events, form, header, probe, nav>>

\* the page is torn down under a live scene: its render target becomes invalid,
\* and no input event is dispatched any more
Teardown ==
    /\ scene.state = "live"
    /\ targetValid
    /\ targetValid' = FALSE
    /\ UNCHANGED <<variant, hasCanvas, threeDefined, dom, win, now, events, scene, form, header, probe, nav>>

Next ==
    \/ DOMContentLoaded
    \/ Resize
    \/ MouseMove
    \/ Scroll
    \/ Tick
    \/ Frame
    \/ Teardown

Spec == Init /\ [][Next]_vars

\* ---- the pure functions of the scene, applied to inputs of their whole domain
PureInit ==
    /\ variant = "enhanced"
    /\ hasCanvas = TRUE
    /\ threeDefined = TRUE
    /\ dom = "loading"
    /\ win = [innerWidth |-> 1280, innerHeight |-> 800, scrollY |-> 0]
    /\ now = 0
    /\ targetValid = TRUE
    /\ events = 0
    /\ scene = NoScene
    /\ form = NoForm
    /\ header = NoHeader
    /\ probe = NoProbe
    /\ nav = NoNav

\* the fade envelope of a flow particle at phase t
ApplyFade ==
    /\ probe = NoProbe
    /\ \E t \in 0..PhaseDen : probe' = Applied("Fade", t, Fade(t))
    /\ UNCHANGED <<sceneVars, form, header, nav>>

\* Math.min(scrollY / heroHeight, 1) for a scroll offset and a viewport height,
\* an overscrolled (negative) offset and a collapsed viewport included
ApplyProgress ==
    /\ probe = NoProbe
    /\ \E y \in ProbeScrollYs, h \in ProbeHeights :
          probe' = Applied("Progress", <<y, h>>, Progress(y, h))
    /\ UNCHANGED <<sceneVars, form, header, nav>>

PureNext ==
    \/ ApplyFade
    \/ ApplyProgress

PureSpec == PureInit /\ [][PureNext]_vars

\* ---- the contact form of main.js and its host: visitor, clock, timers, network
FormInit ==
    /\ variant = "enhanced"
    /\ hasCanvas = FALSE
    /\ threeDefined = FALSE
    /\ dom = "ready"
    /\ win = [innerWidth |-> 1280, innerHeight |-> 800, scrollY |-> 0]
    /\ now = 0
    /\ targetValid = TRUE
    /\ events = 0
    /\ scene = NoScene
    /\ \E c \in BOOLEAN : form = initFormValidation(NoForm, c, TRUE)
    /\ header = NoHeader
    /\ probe = NoProbe
    /\ nav = NoNav

\* no auto-hide timer is overdue: the host runs a timer before any later event
TimersRun(f) == IF f.timers = <<>> THEN TRUE ELSE Head(f.timers) >= f.clock

\* the visitor submits the form
Submit ==
    /\ form.state = "ready"
    /\ form.submits < MaxSubmits
    /\ TimersRun(form)
    /\ \E hp \in (IF form.hasHoneypot THEN {"", "bot"} ELSE {""}), values \in Fillings :
          form' = [onSubmit(form, hp, values) EXCEPT !.submits = @ + 1]
    /\ UNCHANGED <<sceneVars, header, probe, nav>>

\* the reCAPTCHA token request of the oldest waiting submit settles
CaptchaSettled ==
    /\ form.captcha # <<>>
    /\ TimersRun(form)
    /\ form' = onCaptchaSettled(form)
    /\ UNCHANGED <<sceneVars, header, probe, nav>>

\* the oldest POST in flight is answered, or fails
Reply ==
    /\ form.inflight > 0
    /\ TimersRun(form)
    /\ \E outcome \in {"success", "failure", "error"} : form' = onReply(form, outcome)
    /\ UNCHANGED <<sceneVars, header, probe, nav>>

\* the oldest auto-hide timer is due and runs
HideTimer ==
    /\ form.timers # <<>>
    /\ Head(form.timers) <= form.clock
    /\ form' = onHideTimer(form)
    /\ UNCHANGED <<sceneVars, header, probe, nav>>

\* time passes
Advance ==
    /\ form.state = "ready"
    /\ form.advances < MaxAdvances
    /\ TimersRun(form)
    /\ form' = [form EXCEPT !.clock = @ + ClockStep(form.advances), !.advances = @ + 1]
    /\ UNCHANGED <<sceneVars, header, probe, nav>>

FormNext ==
    \/ Submit
    \/ CaptchaSettled
    \/ Reply
    \/ HideTimer
    \/ Advance

FormSpec == FormInit /\ [][FormNext]_vars

\* ---- the header scroll effect of main.js and its host
HeaderInit ==
    /\ variant = "enhanced"
    /\ hasCanvas = FALSE
    /\ threeDefined = FALSE
    /\ dom = "ready"
    /\ win = [innerWidth |-> 1280, innerHeight |-> 800, scrollY |-> 0]
    /\ now = 0
    /\ targetValid = TRUE
    /\ events = 0
    /\ scene = NoScene
    /\ form = NoForm
    /\ header = initHeaderScroll(NoHeader)
    /\ probe = NoProbe
    /\ nav = NoNav

\* the page is scrolled to offset y: the host dispatches scroll
HeaderScroll ==
    /\ header.state = "ready"
    /\ header.scrolls < MaxScrolls
    /\ \E y \in PageOffsets :
          /\ y # header.pageYOffset
          /\ header' = headerScroll([header EXCEPT !.pageYOffset = y])
    /\ UNCHANGED <<sceneVars, form, probe, nav>>

\* the host runs the pending frame callback of the header
HeaderFrame ==
    /\ header.pending > 0
    /\ header' = headerFrame([header EXCEPT !.pending = @ - 1])
    /\ UNCHANGED <<sceneVars, form, probe, nav>>

HeaderNext ==
    \/ HeaderScroll
    \/ HeaderFrame

HeaderSpec == HeaderInit /\ [][HeaderNext]_vars

\* ---- the mobile menu of main.js and its host: the markup and the visitor
NavInit ==
    /\ variant = "enhanced"
    /\ hasCanvas = FALSE
    /\ threeDefined = FALSE
    /\ dom = "ready"
    /\ win = [innerWidth |-> 1280, innerHeight |-> 800, scrollY |-> 0]
    /\ now = 0
    /\ targetValid = TRUE
    /\ events = 0
    /\ scene = NoScene
    /\ form = NoForm
    /\ header = NoHeader
    /\ probe = NoProbe
    /\ \E markup \in Markups : nav = initNavigation(NoNav, markup)

\* the visitor clicks on the toggle, inside the nav links or elsewhere
NavClick ==
    /\ nav.state = "ready"
    /\ Len(nav.log) < MaxNavEvents
    /\ \E target \in ClickTargets : nav' = click(nav, target)
    /\ UNCHANGED <<sceneVars, form, header, probe>>

\* the visitor presses a key
NavKeydown ==
    /\ nav.state = "ready"
    /\ Len(nav.log) < MaxNavEvents
    /\ \E key \in Keys : nav' = keydown(nav, key)
    /\ UNCHANGED <<sceneVars, form, header, probe>>

NavNext ==
    \/ NavClick
    \/ NavKeydown

NavSpec == NavInit /\ [][NavNext]_vars

\* ------------------------------------------------------------- properties
\* the original position of node k (1-based) as nodeData gives it
OriginalPos(k) ==
    LET d == NodeData(variant)[k].pos
    IN  <<d[1] * Micro, d[2] * Micro, d[3] * Micro>>

\* no scroll and no pointer input has reached the page
ZeroInput ==
    /\ events = 0
    /\ win.scrollY = 0
    /\ scene.mouseX = 0 /\ scene.mouseY = 0
    /\ scene.targetMouseX = 0 /\ scene.targetMouseY = 0

\* C1: without the mount element 'hero-canvas' the component is inert: no frame
\* callback is scheduled, no listener is attached, nothing is rendered and no
\* error is raised, whatever events follow.
C1_InertWithoutCanvas ==
    ~hasCanvas =>
        /\ scene.state \in {"none", "inert"}
        /\ scene.pending = 0
        /\ scene.listeners = {}
        /\ scene.frames = 0 /\ scene.renders = 0
        /\ scene.thrown = "none" /\ scene.uncaught = 0

C1_Witness ==
    /\ scene.state = "inert"
    /\ events = MaxEvents
    /\ now > 0

\* C2: when THREE is not defined at DOMContentLoaded no BlueforgeScene is
\* constructed: no frame ever runs, no listener is attached, and no error is
\* raised, neither at start nor inside a frame iteration.
C2_DeclinesWithoutEngine ==
    ~threeDefined =>
        /\ scene.state = "none"
        /\ scene.pending = 0 /\ scene.frames = 0
        /\ scene.listeners = {}
        /\ scene.thrown = "none" /\ scene.uncaught = 0

C2_Witness ==
    /\ ~threeDefined /\ hasCanvas
    /\ dom = "ready"
    /\ win.innerWidth > DesktopMinWidth
    /\ events = MaxEvents /\ win.scrollY > 0
    /\ now > 0

\* C3: the build steps run exactly once each, in order, all of them before the
\* first frame iteration begins, and none runs again once frames run.
C3_BuiltOnceBeforeFirstFrame ==
    scene.frames > 0 =>
        /\ scene.firstFrameBuilt = BuildSteps(variant)
        /\ scene.built = BuildSteps(variant)
        /\ ~scene.lateBuild

C3_Witness ==
    /\ scene.state = "live"
    /\ scene.frames = MaxFrames
    /\ events > 0

\* C4: at most one frame callback is pending at any time, every frame iteration
\* requests exactly one next iteration and calls render exactly once.
C4_NoOverlap ==
    /\ scene.pending <= 1
    /\ scene.frames > 0 =>
          /\ scene.iterScheduled = 1
          /\ scene.iterRenders = 1
          /\ scene.renders = scene.frames

C4_Witness ==
    /\ scene.frames = MaxFrames
    /\ scene.pending = 1
    /\ "resize" \in scene.listeners
    /\ <<win.innerWidth, win.innerHeight>> # scene.rendered.size

\* C5 as claimed: in every frame iteration the next iteration is requested
\* after all the other steps of the iteration, the render included.
C5_ScheduledAfterRender ==
    scene.frames > 0 =>
        /\ Len(scene.iter) = Len(FrameSteps(variant))
        /\ scene.iter[Len(scene.iter)] = "requestAnimationFrame"

\* C5 as amended: every frame iteration requests the next iteration first and
\* then runs all its steps, ending with the render, in the order of the code;
\* the requested iteration is run by the host only after this one has returned.
C5_ScheduledFirst ==
    scene.frames > 0 =>
        /\ scene.iter = FrameSteps(variant)
        /\ scene.iter[1] = "requestAnimationFrame"
        /\ scene.iter[Len(scene.iter)] = "render"
        /\ scene.thrown = "none"

C5_Witness ==
    /\ scene.frames >= 2
    /\ scene.lastTime > 0
    /\ scene.iter # <<>>

\* C6 as claimed: after a frame iteration whose render failed no frame callback
\* is pending and no further frame iteration runs.
C6_StopsAfterFailedRender ==
    scene.failedRenders > 0 =>
        /\ scene.pending = 0
        /\ scene.framesAfterFailure = 0

\* C7 as claimed: every recorded field is assigned by one handler only after
\* construction, and only the frame iteration calls render.
C7_SingleWriter ==
    /\ \A f \in Fields : Cardinality(scene.writers[f]) <= 1
    /\ scene.renderCallers \subseteq {"animate"}

\* C8: the original position stored with every node is the one nodeData gave
\* it at construction, after any frames and events.
C8_OriginalPositionFixed ==
    \A k \in 1..Len(scene.nodes) :
        IF variant = "simple"
        THEN scene.nodes[k].originalY = NodeData(variant)[k].pos[2] * Micro
        ELSE scene.nodes[k].originalPos = OriginalPos(k)

C8_Witness ==
    /\ Len(scene.nodes) = 7
    /\ scene.frames = MaxFrames
    /\ scene.lastTime > 0
    /\ events > 0
    /\ \A k \in 1..Len(scene.nodes) : scene.nodes[k].position # OriginalPos(k)

\* one frame iteration has run, at elapsed time 0, with zero input
FirstFrameAtZero ==
    /\ scene.state = "live"
    /\ scene.frames = 1
    /\ scene.lastTime = 0
    /\ ZeroInput

\* C9 as claimed: after one frame iteration at elapsed time 0 with zero input
\* every node is displayed at its original position.
C9_DisplayedAtOriginal ==
    FirstFrameAtZero =>
        \A k \in 1..Len(scene.nodes) : scene.nodes[k].position = OriginalPos(k)

\* C9 as amended: after one frame iteration at elapsed time 0 with zero input
\* node i is displayed at its original position plus the value of the floating
\* offsets at time 0: (0.3 cos(0.3 i), 0.8 sin(0.5 i), 0) in the enhanced scene
\* and (0, 0.5 sin(i), 0) in the simple scene.  Node 0 of the simple scene is at
\* its original position, node 0 of the enhanced scene 0.3 off it in x.
C9_DisplayedAtTimeZero ==
    FirstFrameAtZero =>
        /\ Len(scene.nodes) = 7
        /\ \A k \in 1..Len(scene.nodes) :
              LET i == k - 1
                  o == OriginalPos(k)
              IN  scene.nodes[k].position =
                     IF variant = "simple"
                     THEN << o[1], o[2] + (Sin(i * AngleDen) * 5) \div 10, o[3] >>
                     ELSE << o[1] + (Cos((i * 3 * AngleDen) \div 10) * 3) \div 10,
                             o[2] + (Sin((i * 5 * AngleDen) \div 10) * 8) \div 10,
                             o[3] >>
        /\ scene.nodes[1].position =
              IF variant = "simple"
              THEN OriginalPos(1)
              ELSE << OriginalPos(1)[1] + 300000, OriginalPos(1)[2], OriginalPos(1)[3] >>
        /\ scene.nodes[2].position # OriginalPos(2)

C9_Witness ==
    /\ FirstFrameAtZero
    /\ variant = "enhanced"
    /\ scene.renders = 1

\* the ticks of one cycle of a flow particle of the given speed
Period(speed) == (TimeDen * Micro) \div speed

\* C10: after every frame iteration each flow particle's phase is
\* (time * speed + offset) mod 1 for the elapsed time the iteration read, lies
\* in [0, 1), its position is the stream's curve at that phase, and the phase
\* is the same one cycle (1 / speed) and more cycles later.
C10_PhaseOfElapsedTime ==
    scene.frames > 0 =>
        \A c \in 1..Len(scene.dataStreams) :
            \A k \in 1..Len(scene.dataStreams[c].particles) :
                LET p == scene.dataStreams[c].particles[k]
                    cycles == scene.lastTime * p.speed + p.offset * TimeDen
                IN  /\ p.offset = ((k - 1) * Micro) \div particleCount
                    /\ p.speed >= (3 * Micro) \div 10 /\ p.speed < (5 * Micro) \div 10
                    /\ p.t >= 0 /\ p.t < PhaseDen
                    /\ \E n \in 0..MaxTime : p.t + n * PhaseDen = cycles \div 1000
                    /\ p.position = getPoint(scene.dataStreams[c].curve, p.t)
                    /\ \A j \in 1..MaxCycles :
                          Phase(scene.lastTime + j * Period(p.speed), p.speed, p.offset) = p.t

C10_Witness ==
    /\ variant = "enhanced"
    /\ scene.frames >= 2
    /\ \E c \in 1..Len(scene.dataStreams) :
          \E k \in 1..Len(scene.dataStreams[c].particles) :
              LET p == scene.dataStreams[c].particles[k]
              IN  /\ scene.lastTime * p.speed + p.offset * TimeDen >= Micro * TimeDen
                  /\ p.t < (p.offset * TimeDen) \div 1000

\* C11: the opacity of a flow particle is 0 at phase 0 and at phase 1, 0.9 at
\* phase 0.5 and everywhere outside the two fade zones, rises linearly over
\* [0, 0.15), falls linearly over (0.85, 1], and always lies in [0, 0.9]
FadeZone == (15 * PhaseDen) \div 100
FullOpacity == (9 * Micro) \div 10
C11_FadeEnvelope ==
    probe.fn = "Fade" =>
        LET t == probe.arg
            o == probe.result[1]
        IN  /\ o >= 0 /\ o <= FullOpacity
            /\ (t = 0 \/ t = PhaseDen) => o = 0
            /\ t = PhaseDen \div 2 => o = FullOpacity
            /\ (t >= FadeZone /\ t <= PhaseDen - FadeZone) => o = FullOpacity
            /\ t < FadeZone => o = (t * FullOpacity) \div FadeZone
            /\ t > PhaseDen - FadeZone => o = ((PhaseDen - t) * FullOpacity) \div FadeZone
C11_Witness ==
    /\ probe.fn = "Fade"
    /\ probe.arg > PhaseDen - FadeZone
    /\ probe.result[1] < FullOpacity \div 2

\* the scene of a run of the same page that was given no input and ran, after
\* its construction, a single frame callback, at elapsed time T
SingleFrameAt(T) ==
    LET built == Return(constructor(NoScene))
    IN  Return(animate([built EXCEPT !.clockStart = now - T, !.pending = @ - 1]))

\* what a frame displays: node transforms, flow particles, the point cloud,
\* the smoothed pointer and the camera position
Displayed(s) ==
    [nodes |-> s.nodes, dataStreams |-> s.dataStreams,
     pointsRotY |-> s.pointsRotY, positionsY |-> s.positionsY,
     mouse |-> <<s.mouseX, s.mouseY>>,
     camera |-> <<s.camera.x, s.camera.y, s.camera.z>>]

\* the part of it that animate() computes from the elapsed time alone
TimeDriven(s) ==
    [nodes |-> s.nodes, dataStreams |-> s.dataStreams, pointsRotY |-> s.pointsRotY]

\* a frame has just run at the current time in a scene whose target is valid
FrameAtNow ==
    /\ scene.state = "live"
    /\ targetValid
    /\ scene.frames >= 1
    /\ scene.lastTime = now - scene.clockStart

\* C12 (as stated): every animation parameter is a function of elapsed time and
\* not of the frame count: a run that has had no input and has just run a frame
\* at elapsed time T displays the same scene (nodes, flow particles, point
\* cloud, smoothed pointer, camera) as the run that ran a single frame at T.
C12_FrameCountIndependent ==
    (FrameAtNow /\ ZeroInput) => Displayed(scene) = Displayed(SingleFrameAt(scene.lastTime))

\* C12 (amended): node transforms, flow particles (phase, position, opacity)
\* and the rotation of the point cloud are functions of the elapsed time of the
\* latest frame alone, whatever the frames and input events before it: when a
\* frame has just run at elapsed time T they are what the single frame at T of
\* a run without input shows.
C12_TimeDrivenPart ==
    FrameAtNow => TimeDriven(scene) = TimeDriven(SingleFrameAt(scene.lastTime))
C12_Witness ==
    /\ FrameAtNow
    /\ scene.frames >= 3
    /\ scene.lastTime > 0
    /\ events > 0
    /\ scene.positionsY # SingleFrameAt(scene.lastTime).positionsY

\* C13: scroll progress is the scroll offset divided by the scrollable height,
\* clamped to [0, 1], and 0 when the divisor is zero: for every offset
\* (negative included) and every height (zero included) the progress applied
\* to the canvas opacity and the camera is a finite number in [0, 1].
C13_ProgressInUnitRange ==
    probe.fn = "Progress" =>
        LET y == probe.arg[1]
            h == probe.arg[2]
            p == probe.result[1]
        IN  /\ p.kind = "finite"
            /\ p.v >= 0 /\ p.v <= Micro
            /\ h = 0 => p.v = 0
            /\ (h > 0 /\ y >= 0 /\ y <= h) => p.v = (y * Micro) \div h

\* C14: a resize to (W, H) at once sets the camera's aspect to W / H and the
\* render size to (W, H), so that every render uses the dimensions of the most
\* recent viewport: no frame is rendered with a stale aspect or size.
C14_RenderUsesLatestViewport ==
    /\ "resize" \in scene.listeners =>
          /\ scene.camera.aspect = Aspect(win.innerWidth, win.innerHeight)
          /\ scene.rendererSize = <<win.innerWidth, win.innerHeight>>
    /\ scene.renders > scene.failedRenders =>
          /\ scene.rendered.size = scene.rendered.viewport
          /\ scene.rendered.aspect = Aspect(scene.rendered.viewport[1], scene.rendered.viewport[2])
C14_Witness ==
    /\ events > 0
    /\ scene.frames >= 2
    /\ win.innerWidth = 800 /\ win.innerHeight = 600
    /\ scene.rendered.viewport = <<800, 600>>
    /\ scene.rendered.size = <<800, 600>>
    /\ scene.rendered.aspect = Aspect(800, 600)

\* the pointer state a mousemove event writes, and the scroll state a scroll
\* event writes
PointerState(s) ==
    IF variant = "simple" THEN <<s.mouseX, s.mouseY>> ELSE <<s.targetMouseX, s.targetMouseY>>
ScrollState(s) == <<s.progress, s.opacity, s.camera.z>>

\* the pointer events that can reach the page in its present viewport
PointersInView == {e \in Pointers : e[1] <= win.innerWidth /\ e[2] <= win.innerHeight}

\* C15: pointer state and scroll state are overwritten independently on each
\* event, last write wins: from any state of a live scene, a pointer event
\* sets the pointer state to the event's value and leaves the scroll state
\* alone, a scroll event does the converse, a later event of a kind replaces
\* the value of an earlier one, and the two kinds commute.
C15_IndependentLastWriteWins ==
    ({"mousemove", "scroll"} \subseteq scene.listeners) =>
        /\ \A e \in PointersInView :
              LET m == onMouseMove(scene, e[1], e[2])
              IN  /\ PointerState(m) = <<Normalised(e[1], win.innerWidth),
                                         Normalised(e[2], win.innerHeight)>>
                  /\ ScrollState(m) = ScrollState(scene)
                  /\ m.camera = scene.camera
                  /\ \A e2 \in PointersInView :
                        PointerState(onMouseMove(m, e2[1], e2[2]))
                           = PointerState(onMouseMove(scene, e2[1], e2[2]))
        /\ \A y \in ScrollYs :
              LET sc == onScroll(scene, y)
              IN  /\ ScrollState(sc)[1] = Progress(y, win.innerHeight)
                  /\ PointerState(sc) = PointerState(scene)
                  /\ <<sc.mouseX, sc.mouseY>> = <<scene.mouseX, scene.mouseY>>
                  /\ \A y2 \in ScrollYs :
                        ScrollState(onScroll(sc, y2)) = ScrollState(onScroll(scene, y2))
        /\ \A e \in PointersInView, y \in ScrollYs :
              onScroll(onMouseMove(scene, e[1], e[2]), y)
                 = onMouseMove(onScroll(scene, y), e[1], e[2])
C15_Witness ==
    /\ {"mousemove", "scroll"} \subseteq scene.listeners
    /\ events >= 2
    /\ PointerState(scene) # <<0, 0>>
    /\ scene.progress.v > 0
    /\ win.scrollY > 0

\* the camera path the scroll handler interpolates along: the camera position
\* at progress 0 and at progress 1
CameraPath(v) ==
    IF v = "simple"
    THEN << <<0, 0, 30 * Micro>>, <<0, 0, 50 * Micro>> >>
    ELSE << <<0, 0, 35 * Micro>>, <<0, -10 * Micro, 65 * Micro>> >>

\* the piecewise-linear mapping of a progress p (in units of 1/Micro) onto a
\* path of waypoints at whole coordinates: N = Len(path) - 1 segments,
\* scaled = p N, index = floor(scaled) clamped to [0, N - 1], t = scaled - index
position_at(path, p) ==
    LET N      == Len(path) - 1
        scaled == p * N
        floor  == scaled \div Micro
        index  == IF floor < 0 THEN 0 ELSE Min(floor, N - 1)
        t      == scaled - index * Micro
        a      == path[index + 1]
        b      == path[index + 2]
    IN  [c \in 1..3 |-> a[c] + ((b[c] - a[c]) \div Micro) * t]

\* C16: the camera position applied each frame is derived from the scroll
\* progress through position_at, which maps progress 0 onto the first waypoint
\* and progress 1 onto the last: with the pointer at rest (no parallax offset)
\* and a progress in [0, 1] the camera is at position_at(progress) on its path.
C16_CameraOnPath ==
    ( /\ "scroll" \in scene.listeners
      /\ scene.mouseX = 0 /\ scene.mouseY = 0
      /\ scene.targetMouseX = 0 /\ scene.targetMouseY = 0
      /\ scene.progress.kind = "finite"
      /\ scene.progress.v >= 0 /\ scene.progress.v <= Micro )
    => /\ position_at(CameraPath(variant), 0) = CameraPath(variant)[1]
       /\ position_at(CameraPath(variant), Micro) = CameraPath(variant)[2]
       /\ <<scene.camera.x, scene.camera.y, scene.camera.z>>
             = position_at(CameraPath(variant), scene.progress.v)

\* the pointer half of the smoothing: the smoothed pointer stays in [-1, 1] and
\* the camera's x is computed from it, never from the raw pointer
PointerSmoothed ==
    /\ scene.mouseX >= -Micro /\ scene.mouseX <= Micro
    /\ scene.mouseY >= -Micro /\ scene.mouseY <= Micro
    /\ scene.frames >= 1 => scene.camera.x = scene.mouseX * 5
    /\ "onMouseMove" \notin scene.writers["mouse"]

\* C17: in the enhanced scene the frame iteration smooths both the scroll
\* progress and the pointer towards their raw values, and the camera uses the
\* smoothed values only: no input handler writes a camera coordinate, the
\* scroll handler only records the raw progress for the frames to approach.
C17_CameraUsesSmoothedOnly ==
    variant = "enhanced" =>
        /\ PointerSmoothed
        /\ \A f \in {"camera.position.x", "camera.position.y", "camera.position.z"} :
              scene.writers[f] \subseteq {"animate"}

\* the four conditions of a submit event o
Qualifies(o) ==
    /\ o.sinceLoad >= MinFillTime
    /\ o.honeypot = ""
    /\ o.rate = "passed"
    /\ o.validated /\ o.valid

C19_AtMostThreePerMinute ==
    Len(form.passes) = maxSubmissions + 1 =>
        form.passes[Len(form.passes)] - form.passes[1] >= submissionWindow

\* C19 (amended): in any rate-limit window, the 60 seconds that follow the
\* submit that opened it, at most maxSubmissions submits pass the rate-limit
\* check; every further submit in that window is rejected with an error
\* status and makes no network call.
C19_AtMostThreePerWindow ==
    /\ form.windowPasses <= maxSubmissions
    /\ form.windowPasses <= form.submissionCount
    /\ form.last.rate = "rejected" =>
          /\ form.submissionCount > maxSubmissions
          /\ form.windowPasses = maxSubmissions
          /\ form.last.shown = "error"
          /\ form.last.sent = "no"
    /\ \A k \in 1..Len(form.passes) :
          form.passes[k] >= form.firstSubmissionTime =>
              form.passes[k] - form.firstSubmissionTime < submissionWindow
C19_Witness ==
    /\ form.last.rate = "rejected"
    /\ form.windowPasses = maxSubmissions
    /\ form.status.message = "Too many submissions. Please try again later."

\* C20: the header's scroll handling is throttled to one frame callback: at
\* most one callback is pending at any time (exactly when ticking is set); once
\* a callback has run the header carries 'scrolled' iff the offset read at that
\* run exceeds 100; and no update is lost: every scroll event that arrives
\* after the latest run has a callback pending, so that with no callback
\* pending the class agrees with the current offset.
C20_ThrottledNoUpdateLost ==
    /\ header.pending <= 1
    /\ header.ticking <=> header.pending = 1
    /\ header.runs >= 1 => (header.scrolled <=> header.lastScroll > scrollThreshold)
    /\ header.unseen => header.pending = 1
    /\ (header.pending = 0 /\ header.scrolls >= 1) =>
          /\ header.runs >= 1
          /\ header.lastScroll = header.pageYOffset
          /\ header.scrolled <=> header.pageYOffset > scrollThreshold
C20_Witness ==
    /\ header.scrolls >= 3
    /\ header.runs >= 2
    /\ header.scrolls > header.runs
    /\ header.pending = 0
    /\ header.scrolled
    /\ header.pageYOffset = scrollThreshold + 1

\* C21: once the first toggle click, outside click or Escape press has been
\* handled, the class 'active' is on the mobile toggle exactly when it is on
\* the nav links, aria-expanded is "true" exactly when the nav links are
\* active, and right after an outside click or an Escape press the menu is
\* closed.
MenuEvents == {"toggle", "outside", "Escape"}
MenuClosed ==
    ~nav.toggleActive /\ ~nav.navActive /\ nav.ariaExpanded # "true"
StatusHidden == form.status.type # "none" /\ ~form.status.display
C22_ShownUntilReplacedOrExpired ==
    StatusHidden =>
        /\ form.status.type # "sending"
        /\ form.clock >= form.shownAt + HideDelay

====
